---- MODULE Spec2Model ----
(***************************************************************************)
(* The pullcord login gateway: LoginHandler.ServeHTTP (the per-request     *)
(* authentication / XSRF protocol) over a key-value session, backed by the *)
(* InMemPwdStore password checker.                                         *)
(*                                                                         *)
(* A request is handled in the steps at which the handler touches the      *)
(* session or its other collaborators: read the authenticated flag, read   *)
(* the stored token, validate the submission, write the flag, draw a new   *)
(* token, store it, write the form.  Each request slot keeps what the      *)
(* request read, decided and answered until the slot is reused.            *)
(*                                                                         *)
(* Spec serves one request at a time, ConcSpec interleaves the steps of    *)
(* two requests on one session, SharedSpec those of two handlers with      *)
(* different Identifiers on one session.  HashSpec runs GetPbkdf2Hash and  *)
(* Check on their own, JsonSpec the serialized form of a Pbkdf2Hash, and   *)
(* StoreSpec the loading of an InMemPwdStore and concurrent CheckPassword  *)
(* calls on it.                                                            *)
(*                                                                         *)
(* Abstractions: crypto/rand tokens are fresh values (a counter), so two   *)
(* generated tokens never collide; pbkdf2.Key is a free constructor of its *)
(* arguments (injective).                                                  *)
(***************************************************************************)
EXTENDS Integers, Sequences, FiniteSets, TLC

\* Number of XSRF tokens crypto/rand hands out in one sequential run.
MaxTokens == 3

\* Number of XSRF tokens crypto/rand hands out in one run of interleaved requests.
MaxConcTokens == 2

Pbkdf2MinIterations == 4096

Pbkdf2KeyLength == 64

\* Number of GetPbkdf2Hash calls in one run of the hash primitive.
MaxHashCalls == 2

\* The request slots (concurrently served requests of one session).
Procs == {"r1", "r2"}

\* LoginHandler.Identifier of the handler under study.
Identifier == "testLoginHandler"

\* The Identifier of a second LoginHandler on the same session.
OtherIdentifier == "otherLoginHandler"

----------------------------------------------------------------------------
\* Go values held by the session (interface{}): a dynamic type and a value.

Nil == [type |-> "nil", b |-> FALSE, s |-> 0]

BoolVal(b) == [type |-> "bool", b |-> b, s |-> 0]

StringVal(t) == [type |-> "string", b |-> FALSE, s |-> t]

\* Session keys and form field names, namespaced by the handler's identifier.
AuthSeshKey(id) == <<"authenticated-", id>>

\* Fault: the token is stored under the flag's key.
XsrfKeyClash(id) == AuthSeshKey(id)

\* Fault: the token's key does not carry the handler's identifier.
XsrfKeyUnscoped(id) == <<"xsrf-", "">>

XsrfKey(id) == <<"xsrf-", id>>

UsernameKey(id) == <<"username-", id>>

PasswordKey(id) == <<"password-", id>>

authSeshKey == AuthSeshKey(Identifier)

xsrfKey == XsrfKey(Identifier)

usernameKey == UsernameKey(Identifier)

passwordKey == PasswordKey(Identifier)

\* The fixed strings of the handler.
msgInvalidCredentials == "Invalid Credentials"

msgBadRequest == "Bad request"

\* Error values.
NoSuchSessionValueError == "NoSuchSessionValueError"

NoSuchIdentifierError == "NoSuchIdentifierError"

BadPasswordError == "BadPasswordError"

\* Any error that is none of the named ones (I/O failure and the like).
OtherError == "OtherError"

NoError == "nil"

----------------------------------------------------------------------------
\* Session contract: GetValue(key) -> (value, error), SetValue(key, value) -> error.

\* The results a GetValue call can have on session contents s.
GetValue(s, key) ==
    { IF key \in DOMAIN s
        THEN [val |-> s[key], err |-> NoError]
        ELSE [val |-> Nil, err |-> NoSuchSessionValueError],
      [val |-> Nil, err |-> OtherError] }

\* Session contents after a successful SetValue(key, v).
SetValue(s, key, v) == [k \in DOMAIN s \cup {key} |-> IF k = key THEN v ELSE s[k]]

----------------------------------------------------------------------------
\* Password store (InMemPwdStore) and hash record (Pbkdf2Hash).

Pbkdf2Key(password, salt, iterations) == <<password, salt, iterations>>

\* Fault: the comparison looks at the lengths only.
CheckLengthOnly(hashStruct, password) == NoError

Check(hashStruct, password) ==
    IF hashStruct.Hash = Pbkdf2Key(password, hashStruct.Salt, hashStruct.Iterations)
      THEN NoError
      ELSE BadPasswordError

\* A *Pbkdf2Hash: nil, or a pointer to a record.
NilHash == <<>>

\* A call that does not return: a nil pointer is dereferenced.
Panic == "panic"

\* hs.Check(pass) on the pointer hs a store holds.
CheckPointer(hs, pass) ==
    IF hs = NilHash THEN Panic ELSE Check(hs[1], pass)

\* Fault: an identifier without entry is answered like a wrong password.
CheckPasswordNoLookup(store, id, pass) ==
    IF id \notin DOMAIN store
      THEN BadPasswordError
      ELSE CheckPointer(store[id], pass)

\* InMemPwdStore.CheckPassword; the store maps identifiers to pointers.
CheckPassword(store, id, pass) ==
    IF id \notin DOMAIN store
      THEN NoSuchIdentifierError
      ELSE CheckPointer(store[id], pass)

InsufficientIterationsError == "InsufficientIterationsError"

InsufficientEntropyError == "InsufficientEntropyError"

\* The iteration counts tried (uint16): around the floor and at both ends.
IterationValues ==
    {0, 1, Pbkdf2MinIterations - 1, Pbkdf2MinIterations, Pbkdf2MinIterations + 1, 65535}

Passwords == {"", "P@ssword1", "hunter2"}

Salts == {"salt", "pepper"}

\* crypto/rand.Read on the salt: all Pbkdf2KeyLength bytes and no error, or
\* fewer bytes and an error (Read is io.ReadFull on rand.Reader).
RandReads ==
    [n : {Pbkdf2KeyLength}, err : {NoError}, salt : Salts]
    \cup [n : {0, Pbkdf2KeyLength - 1}, err : {OtherError}, salt : Salts]

\* Fault: the salt is drawn before the iteration count is tested.
GetPbkdf2HashDrawFirst(password, iterations, rnd) ==
    IF rnd.err # NoError
      THEN [rec |-> NilHash, err |-> rnd.err, reads |-> 1]
      ELSE IF iterations < Pbkdf2MinIterations
        THEN [rec |-> NilHash, err |-> InsufficientIterationsError, reads |-> 1]
        ELSE [rec |-> <<[Hash |-> Pbkdf2Key(password, rnd.salt, iterations),
                         Salt |-> rnd.salt, Iterations |-> iterations]>>,
              err |-> NoError, reads |-> 1]

\* GetPbkdf2Hash with rnd the outcome rand.Read has if it is called: the
\* record returned, the error, and the number of rand.Read calls made.
GetPbkdf2Hash(password, iterations, rnd) ==
    IF iterations < Pbkdf2MinIterations
      THEN [rec |-> NilHash, err |-> InsufficientIterationsError, reads |-> 0]
      ELSE IF rnd.err # NoError
        THEN [rec |-> NilHash, err |-> rnd.err, reads |-> 1]
        ELSE IF rnd.n # Pbkdf2KeyLength
          THEN [rec |-> NilHash, err |-> InsufficientEntropyError, reads |-> 1]
          ELSE [rec |-> <<[Hash |-> Pbkdf2Key(password, rnd.salt, iterations),
                           Salt |-> rnd.salt, Iterations |-> iterations]>>,
                err |-> NoError, reads |-> 1]

\* The serialized form.  A byte slice is its length and its content; a base64
\* text is whether it is well-formed standard base64 and the bytes it encodes.
Bytes(len, data) == [len |-> len, data |-> data]

MaxUint16 == 65535

IncorrectSaltLengthError == "IncorrectSaltLengthError"

IncorrectHashLengthError == "IncorrectHashLengthError"

\* Fault: the text is written without padding, which StdEncoding does not read.
EncodeToStringUnpadded(b) == [valid |-> FALSE, bytes |-> b]

\* base64.StdEncoding.EncodeToString and DecodeString.
EncodeToString(b) == [valid |-> TRUE, bytes |-> b]

DecodeString(text) ==
    IF text.valid
      THEN [bytes |-> text.bytes, err |-> NoError]
      ELSE [bytes |-> text.bytes, err |-> OtherError]

\* The zero value of Pbkdf2Hash (new(Pbkdf2Hash)).
ZeroHashRecord == [Hash |-> <<"zero">>, Salt |-> "", Iterations |-> 0]

\* The empty string in a Hash and in a Salt field (also a field left out).
EmptyHashText == EncodeToString(Bytes(0, <<>>))

EmptySaltText == EncodeToString(Bytes(0, ""))

\* Fault: a number too large for uint16 is reduced modulo 2^16.
JsonDecodeWrapping(input) ==
    IF input.kind = "malformed"
      THEN [t |-> [Hash |-> EmptyHashText, Salt |-> EmptySaltText, Iterations |-> 0],
            err |-> OtherError]
      ELSE IF input.kind = "null"
        THEN [t |-> [Hash |-> EmptyHashText, Salt |-> EmptySaltText, Iterations |-> 0],
              err |-> NoError]
        ELSE [t |-> [Hash |-> input.Hash, Salt |-> input.Salt,
                     Iterations |-> input.Iterations % (MaxUint16 + 1)],
              err |-> NoError]

\* json.Decoder.Decode into struct{Hash, Salt string; Iterations uint16}: a
\* document that is not JSON is an error; null leaves the struct zero; a
\* number that is negative or overflows uint16 is an error.
JsonDecode(input) ==
    IF input.kind = "malformed"
      THEN [t |-> [Hash |-> EmptyHashText, Salt |-> EmptySaltText, Iterations |-> 0],
            err |-> OtherError]
      ELSE IF input.kind = "null"
        THEN [t |-> [Hash |-> EmptyHashText, Salt |-> EmptySaltText, Iterations |-> 0],
              err |-> NoError]
        ELSE IF input.Iterations < 0 \/ input.Iterations > MaxUint16
          THEN [t |-> [Hash |-> input.Hash, Salt |-> input.Salt, Iterations |-> 0],
                err |-> OtherError]
          ELSE [t |-> [Hash |-> input.Hash, Salt |-> input.Salt,
                       Iterations |-> input.Iterations],
                err |-> NoError]

\* Fault: each field is copied as soon as it has been checked.
UnmarshalJSONCopyEarly(hashStruct, input) ==
    LET d == JsonDecode(input)
        h == DecodeString(d.t.Hash)
        s == DecodeString(d.t.Salt)
        withHash == [hashStruct EXCEPT !.Hash = h.bytes.data]
        withSalt == [withHash EXCEPT !.Salt = s.bytes.data]
    IN  IF d.err # NoError THEN [rec |-> hashStruct, err |-> d.err]
        ELSE IF h.err # NoError THEN [rec |-> hashStruct, err |-> h.err]
        ELSE IF h.bytes.len # Pbkdf2KeyLength
          THEN [rec |-> hashStruct, err |-> IncorrectHashLengthError]
        ELSE IF s.err # NoError THEN [rec |-> withHash, err |-> s.err]
        ELSE IF s.bytes.len # Pbkdf2KeyLength
          THEN [rec |-> withHash, err |-> IncorrectSaltLengthError]
        ELSE IF d.t.Iterations < Pbkdf2MinIterations
          THEN [rec |-> withSalt, err |-> InsufficientIterationsError]
        ELSE [rec |-> [withSalt EXCEPT !.Iterations = d.t.Iterations], err |-> NoError]

\* Pbkdf2Hash.UnmarshalJSON on the receiver hashStruct: the receiver after
\* the call and the error returned.
UnmarshalJSON(hashStruct, input) ==
    LET d == JsonDecode(input)
        h == DecodeString(d.t.Hash)
        s == DecodeString(d.t.Salt)
    IN  IF d.err # NoError THEN [rec |-> hashStruct, err |-> d.err]
        ELSE IF h.err # NoError THEN [rec |-> hashStruct, err |-> h.err]
        ELSE IF h.bytes.len # Pbkdf2KeyLength
          THEN [rec |-> hashStruct, err |-> IncorrectHashLengthError]
        ELSE IF s.err # NoError THEN [rec |-> hashStruct, err |-> s.err]
        ELSE IF s.bytes.len # Pbkdf2KeyLength
          THEN [rec |-> hashStruct, err |-> IncorrectSaltLengthError]
        ELSE IF d.t.Iterations < Pbkdf2MinIterations
          THEN [rec |-> hashStruct, err |-> InsufficientIterationsError]
        ELSE [rec |-> [Hash |-> h.bytes.data, Salt |-> s.bytes.data,
                       Iterations |-> d.t.Iterations],
              err |-> NoError]

\* Pbkdf2Hash.MarshalJSON: the document json.Marshal writes.
MarshalJSON(hashStruct) ==
    [kind |-> "object",
     Hash |-> EncodeToString(Bytes(Pbkdf2KeyLength, hashStruct.Hash)),
     Salt |-> EncodeToString(Bytes(Pbkdf2KeyLength, hashStruct.Salt)),
     Iterations |-> hashStruct.Iterations]

\* The records and documents tried.
Keys == {Pbkdf2Key("P@ssword1", "salt", Pbkdf2MinIterations),
         Pbkdf2Key("hunter2", "pepper", MaxUint16)}

HashRecords ==
    [Hash : Keys, Salt : Salts,
     Iterations : {Pbkdf2MinIterations, Pbkdf2MinIterations + 1, MaxUint16}]

HashTexts ==
    {EncodeToString(Bytes(n, k)) :
        n \in {Pbkdf2KeyLength - 1, Pbkdf2KeyLength, Pbkdf2KeyLength + 1}, k \in Keys}
    \cup {EmptyHashText, [valid |-> FALSE, bytes |-> Bytes(Pbkdf2KeyLength, <<>>)]}

SaltTexts ==
    {EncodeToString(Bytes(n, "salt")) :
        n \in {Pbkdf2KeyLength - 1, Pbkdf2KeyLength, Pbkdf2KeyLength + 1}}
    \cup {EmptySaltText, [valid |-> FALSE, bytes |-> Bytes(Pbkdf2KeyLength, "")]}

JsonIterations ==
    {-1, 0, Pbkdf2MinIterations - 1, Pbkdf2MinIterations, MaxUint16, MaxUint16 + 1,
     MaxUint16 + 1 + Pbkdf2MinIterations}

NullDocument ==
    [kind |-> "null", Hash |-> EmptyHashText, Salt |-> EmptySaltText, Iterations |-> 0]

JsonInputs ==
    [kind : {"object"}, Hash : HashTexts, Salt : SaltTexts, Iterations : JsonIterations]
    \cup {NullDocument, [NullDocument EXCEPT !.kind = "malformed"]}

\* The receivers tried: a new record, and one that holds a credential.
Receivers ==
    {ZeroHashRecord,
     [Hash |-> Pbkdf2Key("hunter2", "pepper", MaxUint16), Salt |-> "pepper",
      Iterations |-> MaxUint16]}

\* Number of entries in a document given to InMemPwdStore.UnmarshalJSON.
MaxEntries == 2

\* The map with the entry of id set to the pointer hs.
MapAssign(store, id, hs) ==
    [x \in DOMAIN store \cup {id} |-> IF x = id THEN hs ELSE store[x]]

\* json.Unmarshal of an object into the map, entry by entry in the order of
\* the document: null gives a nil pointer, any other value goes through
\* Pbkdf2Hash.UnmarshalJSON on a new record, whose error ends the decoding
\* with the entries before it already stored.
RECURSIVE DecodeEntries(_, _)
DecodeEntries(store, entries) ==
    IF entries = <<>>
      THEN [store |-> store, err |-> NoError]
      ELSE LET e == Head(entries)
               u == UnmarshalJSON(ZeroHashRecord, e.doc)
           IN  IF e.doc.kind = "null"
                 THEN DecodeEntries(MapAssign(store, e.id, NilHash), Tail(entries))
                 ELSE IF u.err # NoError
                   THEN [store |-> store, err |-> u.err]
                   ELSE DecodeEntries(MapAssign(store, e.id, <<u.rec>>), Tail(entries))

\* InMemPwdStore.UnmarshalJSON: json.Unmarshal into the store's map.  A
\* document that is not JSON is refused before anything is stored; null
\* makes the map nil.
StoreUnmarshalJSON(store, input) ==
    IF input.kind = "malformed"
      THEN [store |-> store, err |-> OtherError]
      ELSE IF input.kind = "null"
        THEN [store |-> <<>>, err |-> NoError]
        ELSE DecodeEntries(store, input.entries)

\* The identifiers and the record documents of the store documents tried: a
\* valid record, a record with a salt one byte short, and null.
Identifiers == {"testUser", "nobody"}

GoodDocument ==
    MarshalJSON([Hash |-> Pbkdf2Key("P@ssword1", "salt", Pbkdf2MinIterations),
                 Salt |-> "salt", Iterations |-> Pbkdf2MinIterations])

ShortSaltDocument ==
    [GoodDocument EXCEPT !.Salt = EncodeToString(Bytes(Pbkdf2KeyLength - 1, "salt"))]

EntryDocuments == {GoodDocument, ShortSaltDocument, NullDocument}

Entries == [id : Identifiers, doc : EntryDocuments]

StoreInputs ==
    [kind : {"object"},
     entries : UNION {[1 .. n -> Entries] : n \in 0 .. MaxEntries}]
    \cup [kind : {"null", "malformed"}, entries : {<<>>}]

\* The store of the login tests: one user, hashed with the minimum iterations.
testUser == "testUser"

testPassword == "P@ssword1"

PasswordStore ==
    [id \in {testUser} |->
        <<[Hash |-> Pbkdf2Key(testPassword, "salt", Pbkdf2MinIterations),
           Salt |-> "salt",
           Iterations |-> Pbkdf2MinIterations]>>]

----------------------------------------------------------------------------
\* Requests.  A form field is the list of values submitted under its name;
\* ParseForm puts no name into PostForm without a value, so an absent field is
\* the empty list.

\* A token value no render ever issues.
ForgedToken == MaxTokens + 1

EmptyForm == [xsrf |-> <<>>, username |-> <<>>, password |-> <<>>]

XsrfFields(issued) ==
    {<<>>} \cup {<<t>> : t \in issued \cup {ForgedToken}}
           \cup {<<t, t>> : t \in {u \in issued : u + 1 \notin issued}}

UsernameFields == {<<>>, <<testUser>>, <<"nobody">>, <<testUser, testUser>>}

PasswordFields == {<<>>, <<testPassword>>, <<"wrong">>, <<testPassword, testPassword>>}

Forms(issued) ==
    [xsrf : XsrfFields(issued), username : UsernameFields, password : PasswordFields]

\* A login attempt as a browser sends it: one value per field.
PlainForms(issued) ==
    [xsrf : {<<t>> : t \in issued}, username : {<<testUser>>},
     password : {<<testPassword>>, <<"wrong">>}]

\* The requests a client can send once the tokens `issued` have been handed out:
\* a POST with any form or with a body that does not parse, a GET (its fields
\* travel in the query string), each with or without a session in its context.
Requests(issued) ==
    [method : {"POST"}, wellFormed : {TRUE}, session : BOOLEAN, fields : Forms(issued)]
    \cup [method : {"GET", "POST"}, wellFormed : {FALSE}, session : {TRUE},
          fields : {EmptyForm}]
    \cup [method : {"GET"}, wellFormed : {TRUE}, session : {TRUE},
          fields : {EmptyForm} \cup PlainForms(issued)]

\* The requests of the concurrent runs: browsers' login attempts and page loads.
ConcurrentRequests(issued) ==
    [method : {"POST"}, wellFormed : {TRUE}, session : {TRUE}, fields : PlainForms(issued)]
    \cup [method : {"GET"}, wellFormed : {TRUE}, session : {TRUE}, fields : {EmptyForm}]

\* net/http Request.ParseForm: an error for a body or query that does not parse;
\* PostForm holds the body's fields of a POST and is empty for a GET.
ParseForm(request) ==
    IF ~request.wellFormed
      THEN [err |-> OtherError, PostForm |-> EmptyForm]
      ELSE IF request.method = "POST"
        THEN [err |-> NoError, PostForm |-> request.fields]
        ELSE [err |-> NoError, PostForm |-> EmptyForm]

----------------------------------------------------------------------------
\* The decisions of LoginHandler.ServeHTTP.

\* Fault: the flag is read but never honoured.
AuthStatusIgnoresFlag(res) ==
    IF res.err # NoError /\ res.err # NoSuchSessionValueError
      THEN "error"
      ELSE "continue"

\* What the handler does with the result of GetValue(authSeshKey).
AuthStatus(res) ==
    IF res.err = NoError /\ res.val = BoolVal(TRUE)
      THEN "forward"
      ELSE IF res.err # NoSuchSessionValueError
        THEN "error"
        ELSE "continue"

\* Fault: the comparison always reports a match.
ConstantTimeCompareAlways(x, y) == 1

\* subtle.ConstantTimeCompare of the stored and the received token: 1 iff equal.
ConstantTimeCompare(x, y) == IF x = y THEN 1 ELSE 0

\* Fault: any submitted token is accepted.
XsrfCheckAnyValue(xsrfStored, xsrfRcvd) ==
    IF Len(xsrfRcvd) = 0 THEN msgInvalidCredentials ELSE ""

\* Fault: a missing token is reported differently from a wrong one.
XsrfCheckOracle(xsrfStored, xsrfRcvd) ==
    IF Len(xsrfRcvd) = 0
      THEN msgBadRequest
      ELSE IF Len(xsrfRcvd) # 1 \/ xsrfStored.s # xsrfRcvd[1]
        THEN msgInvalidCredentials
        ELSE ""

\* The XSRF step: the error text, or "" when the submitted token is accepted.
XsrfCheck(xsrfStored, xsrfRcvd) ==
    IF Len(xsrfRcvd) = 0
      THEN msgInvalidCredentials
      ELSE IF Len(xsrfRcvd) # 1 \/ 1 # ConstantTimeCompare(xsrfStored.s, xsrfRcvd[1])
        THEN msgInvalidCredentials
        ELSE ""

\* Fault: of several values the first is taken.
FieldsCheckFirstValue(uVals, pVals) ==
    IF Len(uVals) = 0 \/ Len(pVals) = 0 THEN msgInvalidCredentials ELSE ""

\* Fault: the number of values is tested before the presence of both fields.
FieldsCheckMultiFirst(uVals, pVals) ==
    IF Len(uVals) > 1 \/ Len(pVals) > 1
      THEN msgBadRequest
      ELSE IF Len(uVals) = 0 \/ Len(pVals) = 0
        THEN msgInvalidCredentials
        ELSE ""

\* The field step: the error text, or "" when one username and one password came.
FieldsCheck(uVals, pVals) ==
    IF Len(uVals) = 0
      THEN msgInvalidCredentials
      ELSE IF Len(pVals) = 0
        THEN msgInvalidCredentials
        ELSE IF Len(uVals) # 1 \/ Len(pVals) # 1
          THEN msgBadRequest
          ELSE ""

\* Fault: a wrong password is let through.
CredentialStepLenient(err) ==
    IF err = NoSuchIdentifierError
      THEN [next |-> "render", errString |-> msgInvalidCredentials]
      ELSE IF err # NoError /\ err # BadPasswordError
        THEN [next |-> "error", errString |-> ""]
        ELSE [next |-> "setAuth", errString |-> ""]

\* Fault: an unknown identifier is reported differently from a wrong password.
CredentialStepDistinguishing(err) ==
    IF err = NoSuchIdentifierError
      THEN [next |-> "render", errString |-> msgBadRequest]
      ELSE IF err = BadPasswordError
        THEN [next |-> "render", errString |-> msgInvalidCredentials]
        ELSE IF err # NoError
          THEN [next |-> "error", errString |-> ""]
          ELSE [next |-> "setAuth", errString |-> ""]

\* Fault: an unexpected error of the checker is answered like a wrong password.
CredentialStepErrorAsRejection(err) ==
    IF err # NoError
      THEN [next |-> "render", errString |-> msgInvalidCredentials]
      ELSE [next |-> "setAuth", errString |-> ""]

\* What the handler does with the error CheckPassword returned.
CredentialStep(err) ==
    IF err = NoSuchIdentifierError
      THEN [next |-> "render", errString |-> msgInvalidCredentials]
      ELSE IF err = BadPasswordError
        THEN [next |-> "render", errString |-> msgInvalidCredentials]
        ELSE IF err # NoError
          THEN [next |-> "error", errString |-> ""]
          ELSE [next |-> "setAuth", errString |-> ""]

\* Fault: a first visit is not recognised.
FreshVisitNever(xsrfRes) == FALSE

\* The session has no token yet: a first visit.
FreshVisit(xsrfRes) == xsrfRes.err = NoSuchSessionValueError

\* The handler's PasswordChecker: an in-memory store, or a checker that fails
\* with an error of its own.
InMem(store) == [kind |-> "inmem", store |-> store]

Failing == [kind |-> "failing", store |-> <<>>]

PasswordChecker(checker, id, pass) ==
    IF checker.kind = "failing"
      THEN OtherError
      ELSE CheckPassword(checker.store, id, pass)

\* From the read of the stored token to the verdict on the submission:
\* next is where the handler goes ("error", "forbidden", "render", "setAuth"),
\* chk the error CheckPassword returned ("notcalled" when it was not invoked),
\* calls the collaborators invoked, in order.
Validate(xsrfRes, request, warningErr, checker) ==
    LET form == ParseForm(request)
        post == form.PostForm
        base == [next |-> "render", errString |-> "", chk |-> "notcalled",
                 calls |-> <<"GetValue(xsrf)">>]
        parsed == [base EXCEPT !.calls = <<"GetValue(xsrf)", "ParseForm">>]
    IN  IF xsrfRes.err # NoError /\ xsrfRes.err # NoSuchSessionValueError
          THEN [base EXCEPT !.next = "error"]
          ELSE IF FreshVisit(xsrfRes)
            THEN base
            ELSE IF form.err # NoError
              THEN IF warningErr # NoError
                     THEN [parsed EXCEPT !.next = "forbidden",
                                         !.calls = @ \o <<"log.Warning">>]
                     ELSE [parsed EXCEPT !.errString = msgBadRequest,
                                         !.calls = @ \o <<"log.Warning">>]
              ELSE IF XsrfCheck(xsrfRes.val, post.xsrf) # ""
                THEN [parsed EXCEPT !.errString = XsrfCheck(xsrfRes.val, post.xsrf)]
                ELSE IF FieldsCheck(post.username, post.password) # ""
                  THEN [parsed EXCEPT
                          !.errString = FieldsCheck(post.username, post.password)]
                  ELSE LET err == PasswordChecker(checker,
                                                  post.username[1], post.password[1])
                           step == CredentialStep(err)
                       IN  [next |-> step.next, errString |-> step.errString,
                            chk |-> err,
                            calls |-> <<"GetValue(xsrf)", "ParseForm", "CheckPassword">>]

\* The error label of the login form ("" when there is no error).
ErrMarkup(errString) ==
    IF errString # ""
      THEN <<"<label class=\"error\">", errString, "</label><br />">>
      ELSE <<>>

\* Fault: the hidden field carries the token of the render before.
LoginFormOldToken(errString, nextXSRFToken) ==
    [errMarkup |-> ErrMarkup(errString),
     usernameName |-> usernameKey,
     passwordName |-> passwordKey,
     xsrfName |-> xsrfKey,
     xsrfValue |-> nextXSRFToken - 1]

\* The login form written to the client.
LoginForm(errString, nextXSRFToken) ==
    [errMarkup |-> ErrMarkup(errString),
     usernameName |-> usernameKey,
     passwordName |-> passwordKey,
     xsrfName |-> xsrfKey,
     xsrfValue |-> nextXSRFToken]

NoPage == [errMarkup |-> <<>>, usernameName |-> <<>>, passwordName |-> <<>>,
           xsrfName |-> <<>>, xsrfValue |-> 0]

----------------------------------------------------------------------------
\* State.

VARIABLES
    sess,       \* the session: key -> Go value (the keys present)
    nextTok,    \* the next token crypto/rand yields
    req,        \* request slot -> the request being served and what it did
    mode,       \* "sequential": one request at a time; "concurrent": interleaved;
                \* "hash", "json", "store": runs of the hash primitive, of its
                \* serialized form and of the password store
    pwOk,       \* history: some CheckPassword call has returned success
    loginDone,  \* history: some request has ended in a successful login
    stale,      \* history: the tokens a later render has replaced in the session
    used,       \* history: the tokens submissions have presented (see NoUse)
    lastSet,    \* history: the token of the last successful SetValue(xsrfKey), 0 if none
    hash,       \* the hash primitive's run: the calls made and the last one
    verify,     \* the last Check call on a generated record
    unm,        \* the last Pbkdf2Hash.UnmarshalJSON call
    store,      \* an InMemPwdStore: identifier -> pointer to a record
    load,       \* the last InMemPwdStore.UnmarshalJSON call on store
    call        \* caller -> the CheckPassword call on store it is in

storeVars == <<store, load, call>>

hashVars == <<hash, verify, unm, store, load, call>>

vars == <<sess, nextTok, req, mode, pwOk, loginDone, stale, used, lastSet,
          hash, verify, unm, store, load, call>>

\* The handler's variables.
loginVars == <<sess, nextTok, req, mode, pwOk, loginDone, stale, used, lastSet>>

\* rand.Read was not called.
NoRead == [n |-> 0, err |-> NoError, salt |-> ""]

\* No GetPbkdf2Hash call made yet.  rnd is what rand.Read delivered in the
\* last call, if that call read.
NoHashCall ==
    [calls |-> 0, reads |-> 0, password |-> "", iterations |-> 0, rnd |-> NoRead,
     out |-> [rec |-> NilHash, err |-> NoError, reads |-> 0]]

\* No Check call made yet.  rec is the record checked, from the password it was
\* generated from.
NoVerify == [done |-> FALSE, rec |-> NilHash, from |-> "", password |-> "", err |-> NoError]

\* No UnmarshalJSON call made yet.  recv is the receiver before the call, src
\* the record the document was marshalled from (none for other documents),
\* gen tells that src was returned by GetPbkdf2Hash.
NoUnmarshal ==
    [done |-> FALSE, recv |-> ZeroHashRecord, input |-> NullDocument, src |-> NilHash,
     gen |-> FALSE, out |-> [rec |-> ZeroHashRecord, err |-> NoError]]

\* The goroutines calling CheckPassword on the one store.
Callers == {"c1", "c2"}

\* No InMemPwdStore.UnmarshalJSON call made yet.
NoLoad == [done |-> FALSE, input |-> [kind |-> "null", entries |-> <<>>], err |-> NoError]

\* A caller outside CheckPassword.  present and hs are what the map lookup gave.
IdleCall ==
    [pc |-> "idle", id |-> "", pass |-> "", present |-> FALSE, hs |-> NilHash,
     err |-> NoError]

\* presented: the issued tokens presented by submissions whose validation has
\* run; spent: those among them whose request went on to store a new token or
\* to set the authenticated flag.  Kept for sequential runs only.
NoUse == [presented |-> {}, spent |-> {}]

NoResult == [val |-> Nil, err |-> "unread"]

IdleRequest ==
    [pc |-> "idle",
     request |-> [method |-> "GET", wellFormed |-> TRUE, session |-> TRUE,
                  fields |-> EmptyForm],
     authd |-> NoResult,        \* result of GetValue(authSeshKey)
     xsrfStored |-> NoResult,   \* result of GetValue(xsrfKey)
     errString |-> "",
     chk |-> "notcalled",       \* result of CheckPassword
     authSet |-> FALSE,         \* SetValue(authSeshKey, true) succeeded
     nextXSRFToken |-> 0,       \* the token of this request's render
     xsrfSet |-> FALSE,         \* SetValue(xsrfKey, nextXSRFToken) succeeded
     page |-> NoPage,           \* the form written
     out |-> <<>>,              \* the responses written, in order
     calls |-> <<>>,            \* the collaborators invoked, in order
     afterLogin |-> FALSE,      \* history: loginDone when the request arrived
     staleSeen |-> {},          \* history: stale when the request arrived
     staleRead |-> {},          \* history: stale when the stored token was read
     staleCheck |-> {},         \* history: stale when the submission was validated
     presentedSeen |-> FALSE,   \* history: its token was in used.presented on arrival
     spentSeen |-> FALSE]       \* history: its token was in used.spent on arrival

Issued == 1 .. (nextTok - 1)

InitWith(m) ==
    /\ sess = <<>>
    /\ nextTok = 1
    /\ req = [p \in Procs |-> IdleRequest]
    /\ mode = m
    /\ pwOk = FALSE
    /\ loginDone = FALSE
    /\ stale = {}
    /\ used = NoUse
    /\ lastSet = 0
    /\ hash = NoHashCall
    /\ verify = NoVerify
    /\ unm = NoUnmarshal
    /\ store = <<>>
    /\ load = NoLoad
    /\ call = [c \in Callers |-> IdleCall]

Init == InitWith("sequential")

ConcInit == InitWith("concurrent")

SharedInit == InitWith("shared")


----------------------------------------------------------------------------
\* LoginHandler.ServeHTTP, step by step.

\* The handler serving slot p. Where two handlers share the session, the second
\* slot belongs to the handler configured with OtherIdentifier.
Handler(p) ==
    IF mode = "shared" /\ p = "r2" THEN OtherIdentifier ELSE Identifier

Finish(r, response, calls) ==
    [r EXCEPT !.pc = "done", !.out = @ \o <<response>>, !.calls = @ \o calls]

\* The token a request presents: the one value of its xsrf field.
PresentedToken(request) ==
    IF ParseForm(request).err = NoError /\ Len(ParseForm(request).PostForm.xsrf) = 1
      THEN {ParseForm(request).PostForm.xsrf[1]}
      ELSE {}

\* The issued token a validated submission has used, for the history `used`.
UsedToken(r) ==
    IF mode = "sequential" /\ r.xsrfStored.err = NoError
      THEN PresentedToken(r.request) \cap Issued
      ELSE {}

\* A request arrives: the session is taken from the context and the
\* authenticated flag is read.
Begin(p) ==
    /\ req[p].pc = "idle"
    /\ mode = "sequential" => p = "r1"
    /\ \E request \in (IF mode = "sequential"
                         THEN Requests(Issued)
                         ELSE ConcurrentRequests(Issued)) :
         LET r0 == [IdleRequest EXCEPT !.request = request,
                                       !.afterLogin = loginDone,
                                       !.staleSeen = stale,
                                       !.presentedSeen =
                                          PresentedToken(request) \cap used.presented # {},
                                       !.spentSeen =
                                          PresentedToken(request) \cap used.spent # {}]
         IN  IF ~request.session
               THEN req' = [req EXCEPT ![p] = Finish(r0, "error500", <<>>)]
               ELSE \E res \in GetValue(sess, AuthSeshKey(Handler(p))) :
                      LET r1 == [r0 EXCEPT !.authd = res] IN
                      req' = [req EXCEPT ![p] =
                        CASE AuthStatus(res) = "forward" ->
                               Finish(r1, "downstream",
                                      <<"GetValue(auth)", "Downstream">>)
                          [] AuthStatus(res) = "error" ->
                               Finish(r1, "error500", <<"GetValue(auth)">>)
                          [] OTHER ->
                               [r1 EXCEPT !.pc = "getXsrf",
                                          !.calls = <<"GetValue(auth)">>]]
    /\ UNCHANGED <<sess, nextTok, mode, pwOk, loginDone, stale, used, lastSet, hashVars>>

\* The stored token is read from the session.
GetXsrfStep(p) ==
    /\ req[p].pc = "getXsrf"
    /\ \E res \in GetValue(sess, XsrfKey(Handler(p))) :
         req' = [req EXCEPT ![p] =
                   [@ EXCEPT !.pc = "validate", !.xsrfStored = res, !.staleRead = stale]]
    /\ UNCHANGED <<sess, nextTok, mode, pwOk, loginDone, stale, used, lastSet, hashVars>>

\* The submission is validated against the token read, up to CheckPassword.
ValidateStep(p) ==
    /\ req[p].pc = "validate"
    /\ \E warningErr \in {NoError, OtherError},
          checker \in {InMem(PasswordStore), Failing} :
         LET res == req[p].xsrfStored
             v == Validate(res, req[p].request, warningErr, checker)
             r1 == [req[p] EXCEPT !.errString = v.errString, !.chk = v.chk,
                                  !.staleCheck = stale]
         IN  /\ req' = [req EXCEPT ![p] =
                  CASE v.next = "error" -> Finish(r1, "error500", v.calls)
                    [] v.next = "forbidden" -> Finish(r1, "forbidden", v.calls)
                    [] OTHER -> [r1 EXCEPT !.pc = v.next, !.calls = @ \o v.calls]]
             /\ pwOk' = (pwOk \/ v.chk = NoError)
             /\ used' = [used EXCEPT !.presented =
                            @ \cup UsedToken(req[p])]
    /\ UNCHANGED <<sess, nextTok, mode, loginDone, stale, lastSet, hashVars>>

\* The credentials were accepted: the flag is written, the login is logged and
\* the request is forwarded.
SetAuthStep(p) ==
    /\ req[p].pc = "setAuth"
    /\ \E setErr \in {NoError, OtherError}, noticeErr \in {NoError, OtherError} :
         IF setErr # NoError
           THEN /\ req' = [req EXCEPT ![p] =
                            Finish(@, "error500", <<"SetValue(auth)">>)]
                /\ UNCHANGED <<sess, loginDone, used>>
           ELSE /\ sess' = SetValue(sess, AuthSeshKey(Handler(p)), BoolVal(TRUE))
                /\ used' = [used EXCEPT !.spent =
                               @ \cup UsedToken(req[p])]
                /\ IF noticeErr # NoError
                     THEN /\ req' = [req EXCEPT ![p] =
                                Finish([@ EXCEPT !.authSet = TRUE], "error500",
                                       <<"SetValue(auth)", "log.Notice">>)]
                          /\ UNCHANGED loginDone
                     ELSE /\ req' = [req EXCEPT ![p] =
                                Finish([@ EXCEPT !.authSet = TRUE], "downstream",
                                       <<"SetValue(auth)", "log.Notice", "Downstream">>)]
                          /\ loginDone' = TRUE
    /\ UNCHANGED <<nextTok, mode, pwOk, stale, lastSet, hashVars>>

\* The challenge: a new token is drawn from crypto/rand.
GenTokenStep(p) ==
    /\ req[p].pc = "render"
    /\ nextTok <= (IF mode = "sequential" THEN MaxTokens ELSE MaxConcTokens)
    /\ \E randErr \in {NoError, OtherError} :
         IF randErr # NoError
           THEN /\ req' = [req EXCEPT ![p] = Finish(@, "error500", <<"rand.Read">>)]
                /\ UNCHANGED nextTok
           ELSE /\ nextTok' = nextTok + 1
                /\ req' = [req EXCEPT ![p] =
                      [@ EXCEPT !.pc = "setXsrf", !.nextXSRFToken = nextTok,
                                !.calls = @ \o <<"rand.Read">>]]
    /\ UNCHANGED <<sess, mode, pwOk, loginDone, stale, used, lastSet, hashVars>>

\* Fault: the first token stored stays; a later render does not replace it.
SetXsrfStepFirstWriter(p) ==
    /\ req[p].pc = "setXsrf"
    /\ \E setErr \in {NoError, OtherError} :
         IF setErr # NoError
           THEN /\ req' = [req EXCEPT ![p] =
                            Finish(@, "error500", <<"SetValue(xsrf)">>)]
                /\ UNCHANGED <<sess, stale, used, lastSet>>
           ELSE /\ sess' = IF XsrfKey(Handler(p)) \in DOMAIN sess THEN sess
                          ELSE SetValue(sess, XsrfKey(Handler(p)), StringVal(req[p].nextXSRFToken))
                /\ lastSet' = req[p].nextXSRFToken
                /\ stale' = stale \cup
                      (IF XsrfKey(Handler(p)) \in DOMAIN sess THEN {sess[XsrfKey(Handler(p))].s} ELSE {})
                /\ used' = [used EXCEPT !.spent =
                               @ \cup UsedToken(req[p])]
                /\ req' = [req EXCEPT ![p] =
                      [@ EXCEPT !.pc = "writeForm", !.xsrfSet = TRUE,
                                !.calls = @ \o <<"SetValue(xsrf)">>]]
    /\ UNCHANGED <<nextTok, mode, pwOk, loginDone, hashVars>>

\* Fault: the form is written although the token could not be stored.
SetXsrfStepIgnoringError(p) ==
    /\ req[p].pc = "setXsrf"
    /\ \E setErr \in {NoError, OtherError} :
         IF setErr # NoError
           THEN /\ req' = [req EXCEPT ![p] =
                      [@ EXCEPT !.pc = "writeForm",
                                !.calls = @ \o <<"SetValue(xsrf)">>]]
                /\ UNCHANGED <<sess, stale, used, lastSet>>
           ELSE /\ sess' = SetValue(sess, XsrfKey(Handler(p)), StringVal(req[p].nextXSRFToken))
                /\ lastSet' = req[p].nextXSRFToken
                /\ stale' = stale \cup
                      (IF XsrfKey(Handler(p)) \in DOMAIN sess THEN {sess[XsrfKey(Handler(p))].s} ELSE {})
                /\ used' = [used EXCEPT !.spent =
                               @ \cup UsedToken(req[p])]
                /\ req' = [req EXCEPT ![p] =
                      [@ EXCEPT !.pc = "writeForm", !.xsrfSet = TRUE,
                                !.calls = @ \o <<"SetValue(xsrf)">>]]
    /\ UNCHANGED <<nextTok, mode, pwOk, loginDone, hashVars>>

\* The new token is stored under the handler's xsrfKey.
SetXsrfStep(p) ==
    /\ req[p].pc = "setXsrf"
    /\ \E setErr \in {NoError, OtherError} :
         IF setErr # NoError
           THEN /\ req' = [req EXCEPT ![p] =
                            Finish(@, "error500", <<"SetValue(xsrf)">>)]
                /\ UNCHANGED <<sess, stale, used, lastSet>>
           ELSE /\ sess' = SetValue(sess, XsrfKey(Handler(p)), StringVal(req[p].nextXSRFToken))
                /\ lastSet' = req[p].nextXSRFToken
                /\ stale' = stale \cup
                      (IF XsrfKey(Handler(p)) \in DOMAIN sess THEN {sess[XsrfKey(Handler(p))].s} ELSE {})
                /\ used' = [used EXCEPT !.spent =
                               @ \cup UsedToken(req[p])]
                /\ req' = [req EXCEPT ![p] =
                      [@ EXCEPT !.pc = "writeForm", !.xsrfSet = TRUE,
                                !.calls = @ \o <<"SetValue(xsrf)">>]]
    /\ UNCHANGED <<nextTok, mode, pwOk, loginDone, hashVars>>

\* The form is written to the client.
WriteFormStep(p) ==
    /\ req[p].pc = "writeForm"
    /\ \E writeErr \in {NoError, OtherError} :
         LET form == LoginForm(req[p].errString, req[p].nextXSRFToken) IN
         IF writeErr # NoError
           THEN req' = [req EXCEPT ![p] =
                   Finish([@ EXCEPT !.out = <<"partialform">>], "error500",
                          <<"Fprintf">>)]
           ELSE req' = [req EXCEPT ![p] =
                   Finish([@ EXCEPT !.page = form], "form", <<"Fprintf">>)]
    /\ UNCHANGED <<sess, nextTok, mode, pwOk, loginDone, stale, used, lastSet, hashVars>>

\* The handler has returned; the slot serves the next request.
Return(p) ==
    /\ req[p].pc = "done"
    /\ req' = [req EXCEPT ![p] = IdleRequest]
    /\ UNCHANGED <<sess, nextTok, mode, pwOk, loginDone, stale, used, lastSet, hashVars>>

Next ==
    \E p \in Procs :
        \/ Begin(p)
        \/ GetXsrfStep(p)
        \/ ValidateStep(p)
        \/ SetAuthStep(p)
        \/ GenTokenStep(p)
        \/ SetXsrfStep(p)
        \/ WriteFormStep(p)
        \/ Return(p)

\* One request at a time.
Spec == Init /\ [][Next]_vars

\* Two handlers with different Identifiers on one session, one request each
\* at a time, their steps interleaved.
SharedSpec == SharedInit /\ [][Next]_vars

\* One call of GetPbkdf2Hash.
GenerateStep ==
    /\ mode = "hash"
    /\ hash.calls < MaxHashCalls
    /\ \E password \in Passwords, iterations \in IterationValues, rnd \in RandReads :
         LET out == GetPbkdf2Hash(password, iterations, rnd)
         IN  hash' = [calls |-> hash.calls + 1, reads |-> hash.reads + out.reads,
                      password |-> password, iterations |-> iterations,
                      rnd |-> IF out.reads = 0 THEN NoRead ELSE rnd, out |-> out]
    /\ UNCHANGED <<loginVars, verify, unm, storeVars>>

\* One call of Check on the record the last GetPbkdf2Hash call returned.
CheckStep ==
    /\ mode = "hash"
    /\ hash.out.rec # NilHash
    /\ \E password \in Passwords :
         verify' = [done |-> TRUE, rec |-> hash.out.rec, from |-> hash.password,
                    password |-> password, err |-> Check(hash.out.rec[1], password)]
    /\ UNCHANGED <<loginVars, hash, unm, storeVars>>

\* One call of Pbkdf2Hash.UnmarshalJSON on some document.
UnmarshalStep ==
    /\ mode = "json"
    /\ \E recv \in Receivers, input \in JsonInputs :
         unm' = [done |-> TRUE, recv |-> recv, input |-> input, src |-> NilHash,
                 gen |-> FALSE, out |-> UnmarshalJSON(recv, input)]
    /\ UNCHANGED <<loginVars, hash, verify, storeVars>>

\* The records GetPbkdf2Hash returns on the inputs tried.
GeneratedRecords ==
    {g.rec[1] : g \in {h \in {GetPbkdf2Hash(password, iterations, rnd) :
                                  password \in Passwords,
                                  iterations \in IterationValues,
                                  rnd \in RandReads} : h.rec # NilHash}}

\* A record, written down or returned by GetPbkdf2Hash, is marshalled and the
\* document unmarshalled into a new record.
RoundTripStep ==
    /\ mode = "json"
    /\ \E gen \in BOOLEAN :
         \E r \in (IF gen THEN GeneratedRecords ELSE HashRecords) :
            unm' = [done |-> TRUE, recv |-> ZeroHashRecord, input |-> MarshalJSON(r),
                    src |-> <<r>>, gen |-> gen,
                    out |-> UnmarshalJSON(ZeroHashRecord, MarshalJSON(r))]
    /\ UNCHANGED <<loginVars, hash, verify, storeVars>>

\* One call of InMemPwdStore.UnmarshalJSON, while no CheckPassword call runs.
LoadStep ==
    /\ mode = "store"
    /\ \A c \in Callers : call[c].pc = "idle"
    /\ \E input \in StoreInputs :
         LET out == StoreUnmarshalJSON(store, input)
         IN  /\ store' = out.store
             /\ load' = [done |-> TRUE, input |-> input, err |-> out.err]
    /\ UNCHANGED <<loginVars, hash, verify, unm, call>>

\* What the lookup of a call found, as a map of at most that one entry.
Found(k) == IF k.present THEN [x \in {k.id} |-> k.hs] ELSE <<>>

\* Fault: a lookup that misses leaves a nil entry behind.
LookupStepInserting(c) ==
    /\ mode = "store"
    /\ call[c].pc = "idle"
    /\ \E id \in Identifiers \cup {"root"}, pass \in {"P@ssword1", "hunter2"} :
         /\ call' = [call EXCEPT ![c] =
                [pc |-> "looked", id |-> id, pass |-> pass,
                 present |-> id \in DOMAIN store,
                 hs |-> IF id \in DOMAIN store THEN store[id] ELSE NilHash,
                 err |-> NoError]]
         /\ store' = IF id \in DOMAIN store THEN store ELSE MapAssign(store, id, NilHash)
    /\ UNCHANGED <<loginVars, hash, verify, unm, load>>

\* CheckPassword, first half: the identifier is looked up in the map.
LookupStep(c) ==
    /\ mode = "store"
    /\ call[c].pc = "idle"
    /\ \E id \in Identifiers \cup {"root"}, pass \in {"P@ssword1", "hunter2"} :
         call' = [call EXCEPT ![c] =
                [pc |-> "looked", id |-> id, pass |-> pass,
                 present |-> id \in DOMAIN store,
                 hs |-> IF id \in DOMAIN store THEN store[id] ELSE NilHash,
                 err |-> NoError]]
    /\ UNCHANGED <<loginVars, hash, verify, unm, store, load>>

\* CheckPassword, second half: NoSuchIdentifierError, or Check on the record found.
VerifyStep(c) ==
    /\ mode = "store"
    /\ call[c].pc = "looked"
    /\ call' = [call EXCEPT ![c] =
           [@ EXCEPT !.pc = "done",
                     !.err = CheckPassword(Found(call[c]), call[c].id, call[c].pass)]]
    /\ UNCHANGED <<loginVars, hash, verify, unm, store, load>>

\* The caller has its result.
CallReturn(c) ==
    /\ mode = "store"
    /\ call[c].pc = "done"
    /\ call' = [call EXCEPT ![c] = IdleCall]
    /\ UNCHANGED <<loginVars, hash, verify, unm, store, load>>

StoreInit == InitWith("store")

StoreNext ==
    \/ LoadStep
    \/ \E c \in Callers :
          \/ LookupStep(c)
          \/ VerifyStep(c)
          \/ CallReturn(c)

\* The password store: loaded from documents, read by concurrent callers.
StoreSpec == StoreInit /\ [][StoreNext]_vars

HashInit == InitWith("hash")

JsonInit == InitWith("json")

JsonNext ==
    \/ UnmarshalStep
    \/ RoundTripStep

\* The serialized form of the hash record.
JsonSpec == JsonInit /\ [][JsonNext]_vars

HashNext ==
    \/ GenerateStep
    \/ CheckStep

\* The hash primitive and the store on their own.
HashSpec == HashInit /\ [][HashNext]_vars

\* Requests of one session served concurrently.
ConcSpec == ConcInit /\ [][Next]_vars

----------------------------------------------------------------------------
\* Vocabulary of the properties.

Has(seq, x) == \E i \in DOMAIN seq : seq[i] = x

Done(p) == req[p].pc = "done"

\* The fields the handler sees once the request has parsed.
Parsed(p) == ParseForm(req[p].request).err = NoError

PostForm(p) == ParseForm(req[p].request).PostForm

\* The reads of the request: the flag was absent; a token was stored.
ReadNoFlag(p) == req[p].authd.err = NoSuchSessionValueError

ReadToken(p) == req[p].xsrfStored.err = NoError

\* The submission carries exactly the token the request read from the session.
TokenMatches(p) == ReadToken(p) /\ PostForm(p).xsrf = <<req[p].xsrfStored.val.s>>

AuthTrue(s) == authSeshKey \in DOMAIN s /\ s[authSeshKey] = BoolVal(TRUE)

\* The request was answered with the login form carrying the label `text`
\* ("" for no label), or the render was cut short by a failure of the token
\* source, of the session write or of the response write.
ChallengeWith(p, text) ==
    /\ req[p].errString = text
    /\ ~Has(req[p].out, "downstream")
    /\ \/ /\ req[p].out = <<"form">>
          /\ req[p].page = LoginForm(text, req[p].nextXSRFToken)
          /\ req[p].xsrfSet
       \/ /\ Has(req[p].out, "error500")
          /\ req[p].calls[Len(req[p].calls)] \in {"rand.Read", "SetValue(xsrf)", "Fprintf"}

----------------------------------------------------------------------------
\* C1: a request is forwarded to Downstream only if the authenticated flag it
\* read on arrival was true, or if in that request, in this order, a stored
\* token was read, the one submitted xsrf value equalled it, one username and
\* one password were submitted, CheckPassword returned no error and
\* SetValue(authenticated, true) succeeded.
C1_ForwardOnlyIfAuthenticated ==
    \A p \in Procs :
        Has(req[p].out, "downstream") =>
            \/ /\ req[p].authd = [val |-> BoolVal(TRUE), err |-> NoError]
               /\ req[p].calls = <<"GetValue(auth)", "Downstream">>
            \/ /\ ReadNoFlag(p)
               /\ Parsed(p)
               /\ TokenMatches(p)
               /\ Len(PostForm(p).username) = 1
               /\ Len(PostForm(p).password) = 1
               /\ req[p].chk = NoError
               /\ req[p].authSet
               /\ req[p].calls = <<"GetValue(auth)", "GetValue(xsrf)", "ParseForm",
                                   "CheckPassword", "SetValue(auth)", "log.Notice",
                                   "Downstream">>

C1_Witness ==
    \E p \in Procs : Done(p) /\ req[p].out = <<"downstream">> /\ req[p].authSet

\* C2: the authenticated flag is true in the session only if some earlier
\* CheckPassword call succeeded for the submitted username and password, and a
\* request whose credential check did not succeed never writes the flag.
C2_FlagOnlyAfterCheck ==
    /\ AuthTrue(sess) => pwOk
    /\ authSeshKey \in DOMAIN sess => AuthTrue(sess)
    /\ \A p \in Procs :
          /\ req[p].authSet => req[p].chk = NoError
          /\ (Done(p) /\ ReadNoFlag(p) /\ req[p].chk # NoError) => ~AuthTrue(sess)

C2_Witness ==
    \E p \in Procs :
        /\ Done(p)
        /\ req[p].chk = BadPasswordError
        /\ PostForm(p).username = <<testUser>>
        /\ ~AuthTrue(sess)

\* C3: once the authenticated flag is true in the session, no step of any
\* request, in any interleaving, removes it or writes another value under its key.
C3_Step ==
    /\ AuthTrue(sess) => AuthTrue(sess')
    /\ authSeshKey \in DOMAIN sess' => AuthTrue(sess')

C3_FlagNeverCleared == [][C3_Step]_vars

C3_Witness ==
    \E p, q \in Procs :
        /\ p # q
        /\ AuthTrue(sess)
        /\ Done(p) /\ req[p].afterLogin /\ req[p].request.method = "POST"
        /\ req[q].pc = "writeForm" /\ ~req[q].afterLogin

\* C4: after a successful login, every later request on the session whose read
\* of the flag succeeds is forwarded to Downstream, whatever its method and form;
\* none gets a challenge page and none has its form evaluated (a failed session
\* read ends the request with the internal-error response).
C4_LaterRequestsForwarded ==
    \A p \in Procs :
        (Done(p) /\ req[p].afterLogin /\ req[p].request.session) =>
            /\ ~Has(req[p].out, "form") /\ ~Has(req[p].out, "partialform")
            /\ req[p].page = NoPage
            /\ req[p].chk = "notcalled"
            /\ req[p].authd.err = NoError =>
                  /\ req[p].out = <<"downstream">>
                  /\ req[p].calls = <<"GetValue(auth)", "Downstream">>
            /\ req[p].authd.err # NoError =>
                  /\ req[p].authd.err = OtherError
                  /\ req[p].out = <<"error500">>

C4_Witness ==
    \E p \in Procs :
        /\ Done(p) /\ req[p].afterLogin
        /\ req[p].request.method = "POST"
        /\ req[p].request.fields.xsrf = <<ForgedToken>>
        /\ req[p].request.fields.password = <<"wrong">>
        /\ req[p].out = <<"downstream">>

\* C5: a request that finds neither flag nor token in the session gets the
\* challenge page without error label; its form is not parsed, CheckPassword is
\* not invoked and the flag is not set, even with a correct username and password.
\* (A render that fails ends in the internal-error response instead of the page.)
C5_FreshVisit ==
    \A p \in Procs :
        (Done(p) /\ ReadNoFlag(p) /\ req[p].xsrfStored.err = NoSuchSessionValueError) =>
            /\ ChallengeWith(p, "")
            /\ req[p].chk = "notcalled"
            /\ ~req[p].authSet
            /\ ~AuthTrue(sess)
            /\ ~Has(req[p].calls, "ParseForm")
            /\ req[p].out = <<"form">> => req[p].page.errMarkup = <<>>

C5_Witness ==
    \E p \in Procs :
        /\ Done(p) /\ ReadNoFlag(p)
        /\ req[p].xsrfStored.err = NoSuchSessionValueError
        /\ req[p].request.method = "POST"
        /\ req[p].request.fields.username = <<testUser>>
        /\ req[p].request.fields.password = <<testPassword>>
        /\ req[p].out = <<"form">>

\* The request went past the flag, read a stored token and parsed.
Submitted(p) == Done(p) /\ ReadNoFlag(p) /\ ReadToken(p) /\ Parsed(p)

C7_MultiValueBadRequest ==
    \A p \in Procs :
        (Submitted(p) /\ TokenMatches(p)
           /\ (Len(PostForm(p).username) > 1 \/ Len(PostForm(p).password) > 1)) =>
            /\ ChallengeWith(p, msgBadRequest)
            /\ req[p].chk = "notcalled"

\* C7 amended: with a matching token and both fields present, a username or
\* password field of more than one value gives the page labelled "Bad request";
\* when the other field is absent the label is "Invalid Credentials" (absence
\* is tested first); CheckPassword is invoked in neither case.  (A render that
\* fails ends in the internal-error response instead of the page.)
C7_MultiValueBothPresent ==
    \A p \in Procs :
        (Submitted(p) /\ TokenMatches(p)
           /\ (Len(PostForm(p).username) > 1 \/ Len(PostForm(p).password) > 1)) =>
            /\ req[p].chk = "notcalled"
            /\ ~req[p].authSet
            /\ (Len(PostForm(p).username) > 0 /\ Len(PostForm(p).password) > 0) =>
                  ChallengeWith(p, msgBadRequest)
            /\ (Len(PostForm(p).username) = 0 \/ Len(PostForm(p).password) = 0) =>
                  ChallengeWith(p, msgInvalidCredentials)

C7_Witness ==
    \E p \in Procs :
        /\ Submitted(p) /\ TokenMatches(p)
        /\ PostForm(p).username = <<testUser, testUser>>
        /\ PostForm(p).password = <<testPassword>>
        /\ req[p].out = <<"form">>
        /\ req[p].page.errMarkup = ErrMarkup(msgBadRequest)

EmptyStore == <<>>

Checkers == {InMem(PasswordStore), InMem(EmptyStore), Failing}

C10_StaleTokenRejected ==
    \A p \in Procs :
        (Done(p) /\ ReadNoFlag(p) /\ Parsed(p) /\ req[p].xsrfStored.err # OtherError
           /\ \E t \in req[p].staleSeen : PostForm(p).xsrf = <<t>>) =>
            /\ ChallengeWith(p, msgInvalidCredentials)
            /\ req[p].chk = "notcalled"
            /\ ~req[p].authSet
            /\ ~AuthTrue(sess)
            /\ ~Has(req[p].calls, "CheckPassword")

C10_Witness ==
    \E p \in Procs :
        /\ Done(p) /\ ReadNoFlag(p)
        /\ \E t \in req[p].staleSeen : PostForm(p).xsrf = <<t>>
        /\ PostForm(p).username = <<testUser>>
        /\ PostForm(p).password = <<testPassword>>
        /\ req[p].out = <<"form">>
        /\ req[p].page.errMarkup = ErrMarkup(msgInvalidCredentials)

----------------------------------------------------------------------------
\* The request's validation has run: the stored token was read and the form
\* parsed.
Validated(p) ==
    /\ req[p].pc \notin {"idle", "getXsrf", "validate"}
    /\ Has(req[p].calls, "ParseForm")

\* The submission passed the XSRF step against the token the request read.
PassedXsrf(p) ==
    /\ Validated(p) /\ Parsed(p) /\ ReadToken(p)
    /\ XsrfCheck(req[p].xsrfStored.val, PostForm(p).xsrf) = ""

\* C11 (as stated): in a sequential run, failures of the collaborators
\* included, once a submission presenting an issued token has been validated,
\* no later submission presenting that token passes the XSRF check.
C11_TokenPassesAtMostOnce ==
    \A p \in Procs : PassedXsrf(p) => ~req[p].presentedSeen

\* C11 (amended): in a sequential run, once a submission presenting an issued
\* token has been validated in a request that went on to store a new token or
\* to set the authenticated flag, no later submission presenting that token
\* passes the XSRF check.
C11_SpentTokenNeverPasses ==
    \A p \in Procs : PassedXsrf(p) => ~req[p].spentSeen

\* A submission presents a token an earlier request has spent, and is rejected.
C11_Witness ==
    \E p \in Procs :
        /\ Done(p) /\ Validated(p) /\ req[p].spentSeen /\ ~PassedXsrf(p)
        /\ req[p].errString = msgInvalidCredentials
        /\ req[p].out = <<"form">>

\* C12 (as stated): in every interleaving of requests on one session, no
\* request passes the XSRF check with a token at a moment when the stored value
\* has already been overwritten with another token.
C12_NoPassAfterOverwrite ==
    \A p \in Procs : PassedXsrf(p) => PostForm(p).xsrf[1] \notin req[p].staleCheck

\* C12 (amended): in every interleaving, no request passes the XSRF check with
\* a token that had been overwritten when the request read the stored value;
\* the comparison uses the value read, so an overwrite between the read and
\* the comparison does not fail the submission.
C12_NoPassIfOverwrittenBeforeRead ==
    \A p \in Procs : PassedXsrf(p) => PostForm(p).xsrf[1] \notin req[p].staleRead

\* A request read the token, another request replaced it, and the first
\* passed the XSRF check with it and logged in.
C12_Witness ==
    \E p \in Procs :
        /\ Done(p) /\ PassedXsrf(p)
        /\ PostForm(p).xsrf[1] \in req[p].staleCheck \ req[p].staleRead
        /\ req[p].out = <<"downstream">>

\* C13: when requests render challenges concurrently, the stored token is the
\* one written by the last SetValue call, also once all of them have finished;
\* a submission passes the XSRF check only with the token last written when
\* the request read the session, so of the tokens handed out only that one
\* passes in a following submission.
C13_LastWriterWins ==
    /\ xsrfKey \in DOMAIN sess <=> lastSet # 0
    /\ xsrfKey \in DOMAIN sess => sess[xsrfKey] = StringVal(lastSet)
    /\ \A p \in Procs :
         PassedXsrf(p) =>
            /\ PostForm(p).xsrf = <<req[p].xsrfStored.val.s>>
            /\ req[p].xsrfStored.val.s \notin req[p].staleRead

\* Two renders overlapped (the token drawn first was written last, replacing
\* the token drawn second); both finished; the following submission presents
\* the token written last and passes the XSRF check.
C13_Witness ==
    \E p, q \in Procs :
        /\ p # q /\ req[q].pc = "idle"
        /\ PassedXsrf(p)
        /\ PostForm(p).xsrf[1] = lastSet
        /\ \E t \in req[p].staleSeen : t > PostForm(p).xsrf[1]

\* C20: for every iterations value below Pbkdf2MinIterations and any password,
\* GetPbkdf2Hash returns InsufficientIterationsError and nil, and does not
\* call rand.Read for a salt.
C20_LowIterationsRejected ==
    (hash.calls > 0 /\ hash.iterations < Pbkdf2MinIterations) =>
        /\ hash.out.err = InsufficientIterationsError
        /\ hash.out.rec = NilHash
        /\ hash.out.reads = 0

\* Two calls below the floor, one just below it and with a non-empty password:
\* no salt has been drawn in the run.
C20_Witness ==
    /\ hash.calls = MaxHashCalls
    /\ hash.iterations = Pbkdf2MinIterations - 1
    /\ hash.password # ""
    /\ hash.reads = 0
    /\ hash.out.err = InsufficientIterationsError

\* C14: in a sequential run, a request answered with the challenge page has
\* drawn a token that no earlier render stored, has stored it under xsrfKey in
\* place of the value it read, and has put that token in the hidden xsrfKey
\* field of the page: the stored token differs from the one before the render
\* and equals the one in the page.  (Tokens are modelled as never repeating.)
C14_RenderRotatesToken ==
    \A p \in Procs :
        (Done(p) /\ req[p].out = <<"form">>) =>
            /\ req[p].page.xsrfName = xsrfKey
            /\ req[p].page.xsrfValue = req[p].nextXSRFToken
            /\ xsrfKey \in DOMAIN sess
            /\ sess[xsrfKey] = StringVal(req[p].page.xsrfValue)
            /\ req[p].xsrfStored.val # sess[xsrfKey]
            /\ req[p].page.xsrfValue \notin req[p].staleSeen

\* A rejected submission is answered with the page: the token it read has been
\* replaced by the token in the page.
C14_Witness ==
    \E p \in Procs :
        /\ Done(p) /\ req[p].out = <<"form">>
        /\ ReadToken(p) /\ req[p].errString = msgInvalidCredentials
        /\ req[p].staleSeen # {}
        /\ sess[xsrfKey].s = req[p].page.xsrfValue
        /\ req[p].xsrfStored.val.s \in stale

\* The call the request ended on.
LastCall(p) == req[p].calls[Len(req[p].calls)]

\* A fatal failure met the request: a GetValue or SetValue error other than
\* NoSuchSessionValue, a failed token generation, or a CheckPassword error
\* other than NoSuchIdentifier and BadPassword.
FatalFailure(p) ==
    /\ Done(p) /\ req[p].request.session
    /\ \/ req[p].authd.err = OtherError
       \/ req[p].xsrfStored.err = OtherError
       \/ req[p].chk = OtherError
       \/ LastCall(p) \in {"SetValue(auth)", "rand.Read", "SetValue(xsrf)"}

\* C15: a request met by a fatal failure ends with the internal-error response
\* alone: Downstream is not invoked, no challenge page is written, and the
\* authenticated flag is not written by the request.
C15_FatalFailureEndsInError ==
    \A p \in Procs :
        FatalFailure(p) =>
            /\ req[p].out = <<"error500">>
            /\ ~Has(req[p].calls, "Downstream")
            /\ req[p].page = NoPage
            /\ ~Has(req[p].calls, "Fprintf")
            /\ ~req[p].authSet

\* CheckPassword failed with an error of its own on a submission carrying the
\* right token, username and password.
C15_Witness ==
    \E p \in Procs :
        /\ FatalFailure(p) /\ req[p].chk = OtherError
        /\ TokenMatches(p)
        /\ PostForm(p).username = <<testUser>> /\ PostForm(p).password = <<testPassword>>
        /\ req[p].out = <<"error500">> /\ ~AuthTrue(sess)

\* C16: a request that has written the authenticated flag is forwarded to
\* Downstream and answers the client with nothing else.
C16_AuthSetThenForwarded ==
    \A p \in Procs :
        (Done(p) /\ req[p].authSet) =>
            /\ req[p].out = <<"downstream">>
            /\ Has(req[p].calls, "Downstream")

\* C17: every request ends in exactly one of three outcomes: the login form
\* (without label or with one of the two labels), the forward to Downstream,
\* or the internal-error response; no other response is produced.
C17_ThreeOutcomes ==
    \A p \in Procs :
        Done(p) =>
            \/ /\ req[p].out = <<"form">>
               /\ req[p].errString \in {"", msgInvalidCredentials, msgBadRequest}
               /\ req[p].page.errMarkup = ErrMarkup(req[p].errString)
            \/ req[p].out = <<"downstream">>
            \/ req[p].out = <<"error500">>

\* C18: a request on a session with a stored token whose form does not parse
\* gets the challenge page labelled "Bad request" with a new token stored;
\* CheckPassword is not invoked and the request does not end in an error
\* response (other than the one of a render that fails).
C18_UnparsableFormBadRequest ==
    \A p \in Procs :
        (Done(p) /\ ReadNoFlag(p) /\ ReadToken(p) /\ ~Parsed(p)) =>
            /\ ChallengeWith(p, msgBadRequest)
            /\ req[p].chk = "notcalled"

\* The text the login tests look for in the page of a rejected submission.
testInvalidCredentials == "Invalid credentials"

\* strings.Contains on the page written for a request to the path "/": of the
\* page's text only the error label varies.
Contains(page, text) == Has(page.errMarkup, text)

\* A submission rejected for its token, a missing username or password, an
\* unknown username or a wrong password, and answered with the page.
RejectedSubmission(p) ==
    /\ Submitted(p) /\ req[p].out = <<"form">>
    /\ \/ ~TokenMatches(p)
       \/ Len(PostForm(p).username) = 0
       \/ Len(PostForm(p).password) = 0
       \/ req[p].chk \in {NoSuchIdentifierError, BadPasswordError}

\* C19: the page returned for a rejected submission contains the text
\* "Invalid credentials", compared case-sensitively as the login tests do.
C19_PageSaysInvalidCredentials ==
    \A p \in Procs :
        RejectedSubmission(p) => Contains(req[p].page, testInvalidCredentials)

----------------------------------------------------------------------------
\* C21: on the record GetPbkdf2Hash returned for password p (iterations at or
\* above the floor), Check succeeds for p and returns BadPasswordError for
\* every other password (pbkdf2.Key taken as injective).
C21_CheckAcceptsOnlyThePassword ==
    verify.done =>
        /\ verify.rec # NilHash
        /\ verify.rec[1].Iterations >= Pbkdf2MinIterations
        /\ verify.password = verify.from => verify.err = NoError
        /\ verify.password # verify.from => verify.err = BadPasswordError

\* A record generated at the floor from a non-empty password was checked
\* against another password.
C21_Witness ==
    /\ verify.done
    /\ verify.from = "P@ssword1" /\ verify.password = "hunter2"
    /\ verify.rec[1].Iterations = Pbkdf2MinIterations
    /\ verify.err = BadPasswordError

\* C22: whenever rand.Read delivers fewer than Pbkdf2KeyLength salt bytes,
\* GetPbkdf2Hash returns InsufficientEntropyError and nil, whether or not
\* rand.Read reports an error of its own.
C22_ShortReadInsufficientEntropy ==
    (hash.calls > 0 /\ hash.out.reads = 1 /\ hash.rnd.n < Pbkdf2KeyLength) =>
        /\ hash.out.err = InsufficientEntropyError
        /\ hash.out.rec = NilHash

\* The document's Hash or Salt decodes to a length other than
\* Pbkdf2KeyLength, or its Iterations is below the floor.
BadDocument(input) ==
    /\ input.kind \in {"object", "null"}
    /\ \/ /\ DecodeString(input.Hash).err = NoError
          /\ DecodeString(input.Hash).bytes.len # Pbkdf2KeyLength
       \/ /\ DecodeString(input.Salt).err = NoError
          /\ DecodeString(input.Salt).bytes.len # Pbkdf2KeyLength
       \/ input.Iterations < Pbkdf2MinIterations

\* C23: Pbkdf2Hash.UnmarshalJSON returns an error for every document whose
\* Hash or Salt decodes to a length other than 64 bytes or whose Iterations
\* is below 4096, and whenever it returns an error the receiver's Hash, Salt
\* and Iterations are as before the call.
C23_BadDocumentRejectedUnchanged ==
    unm.done =>
        /\ BadDocument(unm.input) => unm.out.err # NoError
        /\ unm.out.err # NoError => unm.out.rec = unm.recv

\* A document with a good Hash and a Salt one byte short is rejected by a
\* receiver that holds another credential.
C23_Witness ==
    /\ unm.done
    /\ unm.recv # ZeroHashRecord
    /\ unm.input.kind = "object"
    /\ unm.input.Hash.valid /\ unm.input.Hash.bytes.len = Pbkdf2KeyLength
    /\ unm.input.Hash.bytes.data # unm.recv.Hash
    /\ unm.input.Salt.valid /\ unm.input.Salt.bytes.len = Pbkdf2KeyLength - 1
    /\ unm.input.Iterations = Pbkdf2MinIterations
    /\ unm.out.err = IncorrectSaltLengthError
    /\ unm.out.rec = unm.recv

\* C24: for every record satisfying the Hash Record invariant,
\* UnmarshalJSON(MarshalJSON(r)) succeeds with the Hash, Salt and Iterations
\* of r, and Check gives the same result on both for every password.
C24_RoundTrip ==
    (unm.done /\ unm.src # NilHash) =>
        /\ unm.input = MarshalJSON(unm.src[1])
        /\ unm.out.err = NoError
        /\ unm.out.rec = unm.src[1]
        /\ \A password \in Passwords :
             Check(unm.out.rec, password) = Check(unm.src[1], password)

\* A generated record went through the round trip and still accepts its password.
C24_Witness ==
    /\ unm.done /\ unm.src # NilHash
    /\ unm.gen
    /\ unm.out.err = NoError
    /\ Check(unm.out.rec, testPassword) = NoError
    /\ Check(unm.out.rec, "hunter2") = BadPasswordError

\* C30: every record accepted by Pbkdf2Hash.UnmarshalJSON or produced by
\* GetPbkdf2Hash has 4096 <= Iterations <= 65535; an accepted record has the
\* Iterations of its document, and a document whose Iterations exceeds 65535
\* is rejected, not reduced modulo 2^16.
C30_IterationsInRange ==
    /\ (unm.done /\ unm.out.err = NoError) =>
          /\ unm.out.rec.Iterations \in Pbkdf2MinIterations .. MaxUint16
          /\ unm.out.rec.Iterations = unm.input.Iterations
    /\ (unm.done /\ unm.input.kind = "object" /\ unm.input.Iterations > MaxUint16) =>
          unm.out.err # NoError
    /\ (unm.done /\ unm.gen) =>
          unm.src[1].Iterations \in Pbkdf2MinIterations .. MaxUint16

\* A document that is valid but for Iterations = 65536 + 4096 is rejected.
C30_Witness ==
    /\ unm.done /\ unm.input.kind = "object"
    /\ unm.input.Iterations = MaxUint16 + 1 + Pbkdf2MinIterations
    /\ unm.input.Hash.valid /\ unm.input.Hash.bytes.len = Pbkdf2KeyLength
    /\ unm.input.Salt.valid /\ unm.input.Salt.bytes.len = Pbkdf2KeyLength
    /\ unm.out.err # NoError

\* C25: CheckPassword(id, pass) returns NoSuchIdentifierError exactly when id
\* has no entry in the store (so for every id on an empty store), and
\* otherwise the result of Check(pass) on the record stored for id.
C25_LookupThenCheck ==
    \A c \in Callers :
        call[c].pc = "done" =>
            /\ call[c].err = NoSuchIdentifierError <=> call[c].id \notin DOMAIN store
            /\ call[c].id \in DOMAIN store =>
                  call[c].err = CheckPointer(store[call[c].id], call[c].pass)
            /\ store = <<>> => call[c].err = NoSuchIdentifierError

\* On a populated store one call was answered NoSuchIdentifierError and
\* another BadPasswordError.
C25_Witness ==
    \E c, d \in Callers :
        /\ call[c].pc = "done" /\ call[d].pc = "done"
        /\ call[c].id \notin DOMAIN store /\ call[c].err = NoSuchIdentifierError
        /\ call[d].id \in DOMAIN store /\ store[call[d].id] # NilHash
        /\ call[d].err = BadPasswordError

\* The document has a record that Pbkdf2Hash.UnmarshalJSON refuses.
HasInvalidRecord(input) ==
    /\ input.kind = "object"
    /\ \E i \in DOMAIN input.entries :
         /\ input.entries[i].doc.kind # "null"
         /\ UnmarshalJSON(ZeroHashRecord, input.entries[i].doc).err # NoError

\* C26: InMemPwdStore.UnmarshalJSON on a mapping with at least one record that
\* fails validation returns an error and leaves the store as it was before
\* the call, wherever the invalid record stands in the mapping.
C26_Step ==
    (load' # load /\ HasInvalidRecord(load'.input)) =>
        /\ load'.err # NoError
        /\ store' = store

C26_InvalidRecordNoPartialStore == [][C26_Step]_vars

\* C28: a step of CheckPassword leaves the store unchanged, and a call that
\* ran while other calls were running returns what the call returns on that
\* store when run alone.
C28_Step ==
    call' # call =>
        /\ store' = store
        /\ \A c \in Callers :
             call'[c].pc = "done" =>
                call'[c].err = CheckPassword(store', call'[c].id, call'[c].pass)

C28_ConcurrentChecksAgree == [][C28_Step]_vars

\* Two calls for the same identifier overlap on a populated store: one has
\* returned success while the other is between lookup and comparison.
C28_Witness ==
    \E c, d \in Callers :
        /\ c # d
        /\ call[c].pc = "done" /\ call[c].err = NoError
        /\ call[d].pc = "looked" /\ call[d].id = call[c].id
        /\ call[d].pass # call[c].pass

\* The longest path through ServeHTTP, in calls of its collaborators: the flag
\* read, the token read, ParseForm, CheckPassword, the flag write, log.Notice
\* and Downstream.
MaxCallsPerRequest == 7

\* C29: every request reaches exactly one terminal outcome (forward,
\* challenge render or error response) after a bounded number of steps; it
\* never produces two outcomes.
C29_ExactlyOneOutcome ==
    \A p \in Procs :
        /\ Len(req[p].calls) <= MaxCallsPerRequest
        /\ Len(req[p].out) <= 1
        /\ Done(p) => Len(req[p].out) = 1

\* The session keys of the handler configured with the identifier id.
KeysOf(id) == {AuthSeshKey(id), XsrfKey(id), UsernameKey(id)}

\* The part of the session a handler reads and writes.
Own(s, id) == [k \in KeysOf(id) \cap DOMAIN s |-> s[k]]

\* The flag of the handler id is set in the session s.
FlagSet(s, id) ==
    /\ AuthSeshKey(id) \in DOMAIN s
    /\ s[AuthSeshKey(id)] = BoolVal(TRUE)

\* C27: two handlers with different Identifiers on one session use disjoint
\* session keys: a step of one handler's request leaves the other handler's
\* keys (its flag and the token it accepts) as they were, a request is
\* forwarded only when its own handler's flag is set, and a submission passes
\* the token comparison only against the token stored by its own handler.
C27_Step ==
    /\ KeysOf(Identifier) \cap KeysOf(OtherIdentifier) = {}
    /\ \A p \in Procs :
         /\ req'[p] = req[p] => Own(sess', Handler(p)) = Own(sess, Handler(p))
         /\ (req'[p].out = <<"downstream">> /\ req[p].out = <<>>) =>
               FlagSet(sess', Handler(p))
         /\ (req'[p].chk # "notcalled" /\ req[p].chk = "notcalled") =>
               /\ req[p].xsrfStored.val.type = "string"
               /\ PresentedToken(req[p].request) = {req[p].xsrfStored.val.s}

C27_DisjointSessionKeys == [][C27_Step]_vars

\* One handler has logged the user in, and afterwards the other handler, whose
\* flag is not set, has answered a request with its challenge and stored its
\* own token beside the one of the first handler.
C27_Witness ==
    /\ mode = "shared"
    /\ FlagSet(sess, Identifier)
    /\ ~FlagSet(sess, OtherIdentifier)
    /\ Done("r2")
    /\ req["r2"].afterLogin
    /\ req["r2"].out = <<"form">>
    /\ XsrfKey(Identifier) \in DOMAIN sess
    /\ XsrfKey(OtherIdentifier) \in DOMAIN sess
    /\ sess[XsrfKey(OtherIdentifier)] = StringVal(req["r2"].nextXSRFToken)
    /\ sess[XsrfKey(Identifier)] # sess[XsrfKey(OtherIdentifier)]

\* The session values a handler keeps under its flag's and its token's key.
FlagAndToken(s) == [k \in {authSeshKey, xsrfKey} \cap DOMAIN s |-> s[k]]

\* C31: a request handled on a session whose authenticated flag is already
\* true makes no session write and no CheckPassword call: it ends in the step
\* that read the flag, and the values under xsrfKey and authSeshKey are the
\* same after the request as before it.
C31_Step ==
    \A p \in Procs :
        (req[p].pc = "idle" /\ req'[p].pc # "idle" /\ AuthTrue(sess)) =>
            /\ req'[p].pc = "done"
            /\ FlagAndToken(sess') = FlagAndToken(sess)
            /\ sess' = sess
            /\ req'[p].chk = "notcalled"
            /\ ~req'[p].authSet /\ ~req'[p].xsrfSet
            /\ \A i \in DOMAIN req'[p].calls :
                 req'[p].calls[i] \in {"GetValue(auth)", "Downstream"}

C31_AuthenticatedRequestWritesNothing == [][C31_Step]_vars

\* A submission with credentials and a token arrived on the authenticated
\* session, which holds a token: it was forwarded, CheckPassword was not
\* called and the token is still stored.
C31_Witness ==
    \E p \in Procs :
        /\ Done(p) /\ req[p].afterLogin
        /\ AuthTrue(sess)
        /\ req[p].request.method = "POST"
        /\ req[p].request.fields.username # <<>>
        /\ req[p].request.fields.password # <<>>
        /\ req[p].authd = [val |-> BoolVal(TRUE), err |-> NoError]
        /\ req[p].out = <<"downstream">>
        /\ req[p].chk = "notcalled"
        /\ xsrfKey \in DOMAIN sess

\* The position of the call c in the calls of a request (0 when not made).
CallIndex(calls, c) ==
    IF Has(calls, c) THEN CHOOSE i \in DOMAIN calls : calls[i] = c ELSE 0

\* The tokens that were stored under xsrfKey at some time.
StoredTokens ==
    stale \cup (IF xsrfKey \in DOMAIN sess /\ sess[xsrfKey].type = "string"
                  THEN {sess[xsrfKey].s} ELSE {})

\* C32: on the render path the new token is stored in the session before any
\* part of the form is written: a request that has written the form, or a
\* part of it, has stored its token before, and a request whose SetValue of
\* the token failed has written no part of the form.
C32_TokenStoredBeforeForm ==
    \A p \in Procs :
        /\ (Has(req[p].out, "form") \/ Has(req[p].out, "partialform")) =>
              /\ req[p].xsrfSet
              /\ req[p].nextXSRFToken \in StoredTokens
              /\ 0 < CallIndex(req[p].calls, "SetValue(xsrf)")
              /\ CallIndex(req[p].calls, "SetValue(xsrf)")
                    < CallIndex(req[p].calls, "Fprintf")
        /\ req[p].page # NoPage =>
              /\ req[p].xsrfSet
              /\ req[p].page.xsrfValue = req[p].nextXSRFToken
        /\ (Has(req[p].calls, "SetValue(xsrf)") /\ ~req[p].xsrfSet) =>
              /\ req[p].out = <<"error500">>
              /\ req[p].page = NoPage
              /\ ~Has(req[p].calls, "Fprintf")

\* Storing the token of a render failed: the request ended in the
\* internal-error response, no form went out and the token drawn is not in
\* the session.
C32_Witness ==
    \E p \in Procs :
        /\ Done(p)
        /\ req[p].nextXSRFToken # 0
        /\ LastCall(p) = "SetValue(xsrf)"
        /\ ~req[p].xsrfSet
        /\ req[p].out = <<"error500">>
        /\ req[p].nextXSRFToken \notin StoredTokens

\* The errors CheckPassword may return.
CheckPasswordResults == {NoError, NoSuchIdentifierError, BadPasswordError}

\* C33: after InMemPwdStore.UnmarshalJSON has returned without error, every
\* identifier in the store maps to a record that satisfies the record
\* invariant, a null record in the input included, so CheckPassword on the
\* loaded store returns only success, NoSuchIdentifierError or
\* BadPasswordError.
C33_LoadedStoreRecordsValid ==
    (load.done /\ load.err = NoError) =>
        /\ \A id \in DOMAIN store :
             /\ store[id] # NilHash
             /\ store[id][1].Iterations >= Pbkdf2MinIterations
             /\ store[id][1].Iterations <= MaxUint16
        /\ \A c \in Callers :
             call[c].pc = "done" => call[c].err \in CheckPasswordResults
====
